---- MODULE Spec2Model ----
(***************************************************************************)
(* A model of command_runner/test_files/example.py: a script entry point   *)
(* (main), the function add, eight test callables, and the __main__ guard. *)
(*                                                                         *)
(* Every Python callable is modelled as an operator that takes its         *)
(* arguments and the world w = [stdout, globals] it runs in, and returns   *)
(* a record [val, exc, w]: the returned value, the exception that left the *)
(* call ("None" when it returned normally) and the world it leaves behind. *)
(***************************************************************************)
EXTENDS Integers, Sequences, FiniteSets, TLC

VARIABLES
    name,       \* the module's __name__
    pc,         \* position of the interpreter in the module / in main
    stdout,     \* the lines printed so far
    globals,    \* the module namespace: global name -> object
    locals,     \* main's frame: local name -> value
    status,     \* harness: last outcome of each test
    runs,       \* harness: how many times each test has been executed
    arg_a,      \* first input of a direct call of add
    arg_b,      \* second input of a direct call of add
    addcall,    \* the completed direct calls of add: <<>> or <<[val, exc]>>
    style,      \* form of a single-assertion test: "assert" or "assertEqual"
    actual,     \* the value the assertion compares
    expected,   \* the value the assertion expects
    verdict,    \* what the caller of that test has seen
    attempts    \* how many times that test's body was executed

vars == <<name, pc, stdout, globals, locals, status, runs,
          arg_a, arg_b, addcall, style, actual, expected, verdict, attempts>>

addVars == <<arg_a, arg_b, addcall>>
assertVars == <<style, actual, expected, verdict, attempts>>

----------------------------------------------------------------------------
(* Bounds *)

MaxInt == 5
MaxRuns == 2

Ints == (0 - MaxInt)..MaxInt

----------------------------------------------------------------------------
(* Values *)

World(out, g) == [stdout |-> out, globals |-> g]

Return(v, w) == [val |-> v, exc |-> "None", w |-> w]

Raise(e, w) == [val |-> "None", exc |-> e, w |-> w]

\* print(line): appends one line to standard output
print(line, w) == Return("None", World(Append(w.stdout, line), w.globals))

\* the f prefix forgotten: the braces are printed as written
fmt_literal(result) == "2 + 3 = {result}"

\* f"2 + 3 = {result}": the decimal text of result after the literal part
fmt_result(result) == "2 + 3 = " \o ToString(result)

----------------------------------------------------------------------------
(* The functions of the file *)

\* add that subtracts
add_sub(a, b, w) == Return(a - b, w)

\* add that uses its first argument twice
add_twice_a(a, b, w) == Return(a + a, w)

\* add that prints what it computes
add_debug_print(a, b, w) ==
    Return(a + b, World(Append(w.stdout, "add"), w.globals))

\* add that keeps its first result in a global and returns it ever after
add_memo(a, b, w) ==
    IF "_memo" \in DOMAIN w.globals
    THEN Return(w.globals["_memo"], w)
    ELSE Return(a + b, World(w.stdout, ("_memo" :> (a + b)) @@ w.globals))

\* add that fails on its operands
add_str(a, b, w) == Raise("TypeError", w)

\* def add(a, b): return a + b
add(a, b, w) == Return(a + b, w)

\* an assert statement that is skipped
assert_stripped(cond, w) == Return("None", w)

\* the statement `assert cond`
assert_stmt(cond, w) == IF cond THEN Return("None", w) ELSE Raise("AssertionError", w)

\* unittest's self.assertEqual(first, second)
assertEqual(first, second, w) ==
    IF first = second THEN Return("None", w) ELSE Raise("AssertionError", w)

\* x / y: true division, whose float result is kept as the exact ratio
truediv(x, y) == [num |-> x, den |-> y]

\* a float compared with an int by ==
float_eq(f, n) == f.num = n * f.den

\* a sum that stops one element early
RECURSIVE sum_no_last(_)
sum_no_last(given) ==
    IF Len(given) <= 1 THEN 0 ELSE Head(given) + sum_no_last(Tail(given))

\* the builtin sum over a list
RECURSIVE sum(_)
sum(given) == IF given = <<>> THEN 0 ELSE Head(given) + sum(Tail(given))

\* assert add(2, 2) == 4
test_addition(w) ==
    LET r == add(2, 2, w)
    IN  IF r.exc # "None" THEN Raise(r.exc, r.w) ELSE assert_stmt(r.val = 4, r.w)

\* assert 5 - 3 == 2
test_subtraction(w) == assert_stmt(5 - 3 = 2, w)

\* assert 3 * 4 == 12
TestMath_test_multiplication(w) == assert_stmt(3 * 4 = 12, w)

\* assert 10 / 2 == 5
TestMath_test_division(w) == assert_stmt(float_eq(truediv(10, 2), 5), w)

\* assert add(-1, 1) == 0
TestMath_test_add_negative(w) ==
    LET r == add(0 - 1, 1, w)
    IN  IF r.exc # "None" THEN Raise(r.exc, r.w) ELSE assert_stmt(r.val = 0, r.w)

\* given = [1, 2, 3]; expected = 6; assert sum(given) == expected
test_with_pytest_style(w) ==
    LET given == <<1, 2, 3>>
        expect == 6
    IN  assert_stmt(sum(given) = expect, w)

\* self.assertEqual(add(3, 4), 7)
TestAddition_test_positive_numbers(w) ==
    LET r == add(3, 4, w)
    IN  IF r.exc # "None" THEN Raise(r.exc, r.w) ELSE assertEqual(r.val, 7, r.w)

\* self.assertEqual(add(-3, -4), -7)
TestAddition_test_negative_numbers(w) ==
    LET r == add(0 - 3, 0 - 4, w)
    IN  IF r.exc # "None" THEN Raise(r.exc, r.w) ELSE assertEqual(r.val, 0 - 7, r.w)

\* the tests of the file, by qualified name
Tests == {"test_addition", "test_subtraction", "TestMath.test_multiplication",
          "TestMath.test_division", "TestMath.test_add_negative",
          "test_with_pytest_style", "TestAddition.test_positive_numbers",
          "TestAddition.test_negative_numbers"}

\* the tests whose body calls add
AddTests == {"test_addition", "TestMath.test_add_negative",
             "TestAddition.test_positive_numbers",
             "TestAddition.test_negative_numbers"}

\* the global name a test is reached through
Owner(t) ==
    CASE t \in {"TestMath.test_multiplication", "TestMath.test_division",
                "TestMath.test_add_negative"} -> "TestMath"
      [] t \in {"TestAddition.test_positive_numbers",
                "TestAddition.test_negative_numbers"} -> "TestAddition"
      [] OTHER -> t

\* calling test t in world w
CallTest(t, w) ==
    CASE t = "test_addition" -> test_addition(w)
      [] t = "test_subtraction" -> test_subtraction(w)
      [] t = "TestMath.test_multiplication" -> TestMath_test_multiplication(w)
      [] t = "TestMath.test_division" -> TestMath_test_division(w)
      [] t = "TestMath.test_add_negative" -> TestMath_test_add_negative(w)
      [] t = "test_with_pytest_style" -> test_with_pytest_style(w)
      [] t = "TestAddition.test_positive_numbers" -> TestAddition_test_positive_numbers(w)
      [] t = "TestAddition.test_negative_numbers" -> TestAddition_test_negative_numbers(w)

\* the namespace once the module body (lines 4-52) has run
ModuleGlobals ==
    [n \in {"main", "add", "test_addition", "test_subtraction", "TestMath",
            "test_with_pytest_style", "unittest", "TestAddition"} |->
        CASE n \in {"TestMath", "TestAddition"} -> "class"
          [] n = "unittest" -> "module"
          [] OTHER -> "function"]

\* the guard left out: main() is called on every load
guard_missing(n) == TRUE

\* if __name__ == "__main__":
is_main(n) == n = "__main__"

\* what the caller of a test sees: the exception left the test, or it returned
Outcome(r) == IF r.exc = "None" THEN "passed" ELSE "failed"

----------------------------------------------------------------------------
(* The program: loading the file, the guard, main, and a harness running tests *)

Init ==
    /\ name \in {"__main__", "example"}
    /\ pc = "defs"
    /\ stdout = <<>>
    /\ globals = <<>>
    /\ locals = <<>>
    /\ status = [t \in Tests |-> "notrun"]
    /\ runs = [t \in Tests |-> 0]
    /\ arg_a = 0 /\ arg_b = 0 /\ addcall = <<>>
    /\ style = "assert" /\ actual = 0 /\ expected = 0
    /\ verdict = "pending" /\ attempts = 0

\* lines 4-52: the def, class and import statements bind the global names
ExecDefs ==
    /\ pc = "defs"
    /\ globals' = ModuleGlobals
    /\ pc' = "guard"
    /\ UNCHANGED <<name, stdout, locals, status, runs>>
    /\ UNCHANGED <<addVars, assertVars>>

\* lines 54-55: main() is called only under the guard
Guard ==
    /\ pc = "guard"
    /\ pc' = IF is_main(name) THEN "main6" ELSE "done"
    /\ UNCHANGED <<name, stdout, globals, locals, status, runs>>
    /\ UNCHANGED <<addVars, assertVars>>

\* line 6: print("Hello from Python!")
Main6 ==
    /\ pc = "main6"
    /\ LET r == print("Hello from Python!", World(stdout, globals))
       IN  /\ stdout' = r.w.stdout
           /\ globals' = r.w.globals
    /\ pc' = "main7"
    /\ UNCHANGED <<name, locals, status, runs>>
    /\ UNCHANGED <<addVars, assertVars>>

\* line 7: result = add(2, 3)
Main7 ==
    /\ pc = "main7"
    /\ LET r == add(2, 3, World(stdout, globals))
       IN  /\ stdout' = r.w.stdout
           /\ globals' = r.w.globals
           /\ IF r.exc = "None"
              THEN locals' = [n \in {"result"} |-> r.val] /\ pc' = "main8"
              ELSE locals' = locals /\ pc' = "raised"
    /\ UNCHANGED <<name, status, runs>>
    /\ UNCHANGED <<addVars, assertVars>>

\* line 8: print(f"2 + 3 = {result}"), after which main and the module return
Main8 ==
    /\ pc = "main8"
    /\ LET r == print(fmt_result(locals["result"]), World(stdout, globals))
       IN  /\ stdout' = r.w.stdout
           /\ globals' = r.w.globals
    /\ pc' = "done"
    /\ UNCHANGED <<name, locals, status, runs>>
    /\ UNCHANGED <<addVars, assertVars>>

\* a harness that loaded the file calls test t and records what came out
RunTest(t) ==
    /\ pc = "done"
    /\ name # "__main__"
    /\ Owner(t) \in DOMAIN globals
    /\ runs[t] < MaxRuns
    /\ LET r == CallTest(t, World(stdout, globals))
       IN  /\ stdout' = r.w.stdout
           /\ globals' = r.w.globals
           /\ status' = [status EXCEPT ![t] = Outcome(r)]
    /\ runs' = [runs EXCEPT ![t] = @ + 1]
    /\ UNCHANGED <<name, pc, locals>>
    /\ UNCHANGED <<addVars, assertVars>>

Next ==
    \/ ExecDefs
    \/ Guard
    \/ Main6
    \/ Main7
    \/ Main8
    \/ \E t \in Tests : RunTest(t)

Spec == Init /\ [][Next]_vars

\* main is synchronous straight-line code: once entered, the interpreter
\* keeps executing its next statement
FairSpec == Spec /\ WF_vars(Main6) /\ WF_vars(Main7) /\ WF_vars(Main8)

----------------------------------------------------------------------------
(* add applied to arbitrary integers, in the world of the loaded module *)

InitAdd ==
    /\ arg_a \in Ints
    /\ arg_b \in Ints
    /\ addcall = <<>>
    /\ name = "example"
    /\ pc = "done"
    /\ stdout = <<>>
    /\ globals = ModuleGlobals
    /\ locals = <<>>
    /\ status = [t \in Tests |-> "notrun"]
    /\ runs = [t \in Tests |-> 0]
    /\ style = "assert" /\ actual = 0 /\ expected = 0
    /\ verdict = "pending" /\ attempts = 0

\* add(arg_a, arg_b) is called once and what it returned or raised is kept
CallAdd ==
    /\ addcall = <<>>
    /\ LET r == add(arg_a, arg_b, World(stdout, globals))
       IN  /\ addcall' = <<[val |-> r.val, exc |-> r.exc]>>
           /\ stdout' = r.w.stdout
           /\ globals' = r.w.globals
    /\ UNCHANGED <<arg_a, arg_b, name, pc, locals, status, runs>>
    /\ UNCHANGED assertVars

NextAdd == CallAdd

SpecAdd == InitAdd /\ [][NextAdd]_vars

----------------------------------------------------------------------------
(* A test whose body is one assertion comparing actual with expected, in   *)
(* either form the file uses, called once by its caller                     *)

InitAssert ==
    /\ style \in {"assert", "assertEqual"}
    /\ actual \in Ints
    /\ expected \in Ints
    /\ verdict = "pending"
    /\ attempts = 0
    /\ name = "example"
    /\ pc = "done"
    /\ stdout = <<>>
    /\ globals = ModuleGlobals
    /\ locals = <<>>
    /\ status = [t \in Tests |-> "notrun"]
    /\ runs = [t \in Tests |-> 0]
    /\ arg_a = 0 /\ arg_b = 0 /\ addcall = <<>>

\* `assert actual == expected` (line 16) or
\* `self.assertEqual(actual, expected)` (line 49); nothing catches what it raises
RunAssertion ==
    /\ verdict = "pending"
    /\ LET w == World(stdout, globals)
           r == IF style = "assert"
                THEN assert_stmt(actual = expected, w)
                ELSE assertEqual(actual, expected, w)
       IN  /\ verdict' = Outcome(r)
           /\ stdout' = r.w.stdout
           /\ globals' = r.w.globals
    /\ attempts' = attempts + 1
    /\ UNCHANGED <<style, actual, expected, name, pc, locals, status, runs>>
    /\ UNCHANGED addVars

NextAssert == RunAssertion

SpecAssert == InitAssert /\ [][NextAssert]_vars

----------------------------------------------------------------------------
(* Properties *)

\* C1: for all integers a, b of the range (negative, zero, positive),
\* add(a, b) returns exactly a + b and raises nothing.
C1_AddReturnsSum ==
    addcall # <<>> =>
        /\ addcall[1].exc = "None"
        /\ addcall[1].val = arg_a + arg_b

C1_Witness ==
    /\ addcall # <<>>
    /\ arg_a < 0
    /\ arg_b > 0
    /\ addcall[1].val = arg_a + arg_b

\* the two lines main prints
ExpectedOutput == <<"Hello from Python!", "2 + 3 = 5">>

\* C2: run as the entry script, the file prints exactly the two lines
\* "Hello from Python!" and "2 + 3 = 5", in that order: at every moment the
\* output is a prefix of those two lines, and it is both of them at the end.
C2_MainOutput ==
    /\ \E k \in 0..Len(ExpectedOutput) : stdout = SubSeq(ExpectedOutput, 1, k)
    /\ (name = "__main__" /\ pc = "done") => stdout = ExpectedOutput

C2_Witness ==
    /\ name = "__main__"
    /\ pc = "done"
    /\ Len(stdout) = 2
    /\ stdout[2] = "2 + 3 = 5"

\* C3: no test can fail: whenever a test has been executed its outcome is
\* "passed", for each of the eight tests.
C3_NoTestFails ==
    \A t \in Tests :
        /\ status[t] # "failed"
        /\ runs[t] > 0 => status[t] = "passed"

C3_Witness == \A t \in Tests : runs[t] > 0 /\ status[t] = "passed"

\* a step in which add is called: line 7 of main, or a test whose body calls add
CallsAdd == pc = "main7" \/ \E t \in AddTests : runs'[t] # runs[t]

\* C4: a call of add has no side effect: every step that calls add leaves the
\* output and the module namespace as they were, so what main prints is what
\* its own two print statements print.
C4_AddFrame ==
    [][CallsAdd => /\ stdout' = stdout
                   /\ globals' = globals
                   /\ name' = name]_vars

C4_Witness ==
    /\ pc = "main8"
    /\ "result" \in DOMAIN locals
    /\ stdout = <<"Hello from Python!">>
    /\ globals = ModuleGlobals

\* C5: when the compared value differs from the expected one the test ends
\* failed for its caller, after one execution of its body and never passed.
C5_MismatchFails ==
    (verdict # "pending" /\ actual # expected) =>
        /\ verdict = "failed"
        /\ attempts = 1

C5_Witness ==
    /\ verdict = "failed"
    /\ style = "assert"
    /\ actual # expected

\* C6: for every integer x of the range, add(-x, x) = 0 and add(x, -x) = 0.
C6_AddInverse ==
    (addcall # <<>> /\ arg_a = 0 - arg_b) => addcall[1].val = 0

C6_Witness ==
    /\ addcall # <<>>
    /\ arg_a = 0 - 1
    /\ arg_b = 1
    /\ addcall[1].val = 0

\* the statement that follows each statement of main
MainOrder ==
    /\ pc = "main6" => pc' = "main7"
    /\ pc = "main7" => pc' = "main8"
    /\ pc = "main8" => pc' = "done"

\* C7: once started, main runs its three statements top to bottom and
\* returns: every step inside main goes to the next statement, and a started
\* main always reaches its end.
C7_MainTerminates ==
    /\ [][MainOrder]_vars
    /\ (pc = "main6") ~> (pc = "done")

C7_Witness ==
    /\ name = "__main__"
    /\ pc = "done"
    /\ "result" \in DOMAIN locals

\* the outcome of test t executed alone, right after the file was loaded
Alone(t) == Outcome(CallTest(t, World(<<>>, ModuleGlobals)))

\* C8: in whatever order, subset and repetition the tests are executed, each
\* executed test has the outcome it has when executed alone, and the state the
\* tests share (output, module namespace) is as loading left it.
C8_TestsIndependent ==
    /\ \A t \in Tests : runs[t] > 0 => status[t] = Alone(t)
    /\ (name # "__main__" /\ pc = "done") =>
           /\ globals = ModuleGlobals
           /\ stdout = <<>>

C8_Witness ==
    /\ runs["TestAddition.test_positive_numbers"] = 1
    /\ runs["TestMath.test_add_negative"] = 2
    /\ runs["test_subtraction"] = 0
    /\ status["TestMath.test_add_negative"] = "passed"

\* C9: when the file is loaded by a harness and not run as the entry script,
\* main is never entered and nothing is printed, by loading or by any test.
C9_NoMainOnImport ==
    name # "__main__" =>
        /\ pc \in {"defs", "guard", "done"}
        /\ stdout = <<>>
        /\ DOMAIN locals = {}

C9_Witness ==
    /\ name = "example"
    /\ pc = "done"
    /\ runs["test_with_pytest_style"] > 0
    /\ runs["test_addition"] > 0
    /\ stdout = <<>>

====
